---------------------------- MODULE Spec2Model ----------------------------
(***************************************************************************)
(* A model of the dual-timeframe trading pipeline:                         *)
(*   - MarketDataset      (src/trading/src/data/market_dataset.py)         *)
(*   - TimeseriesEnsemble (src/trading/src/models/ensemble.py)             *)
(*   - DualTimeframeTrainer and the driver's epoch loop                    *)
(*                        (src/trading/src/services/trainer.py, main.py)   *)
(*   - predict_with_sample (src/trading/src/predict.py)                    *)
(*                                                                         *)
(* Python indices are 0-based; At(s, i) reads element i of a sequence the  *)
(* way Python does.  Real numbers are exact rationals <<num, den>> or      *)
(* integers in a stated unit (tenths for the 0.4 / 0.6 weights).           *)
(***************************************************************************)
EXTENDS Integers, Sequences, FiniteSets, TLC

VARIABLES
    \* ---- MarketDataset ----
    ds_pc,          \* "new" | "ready" | "ValueError"
    data,           \* self.data after _preprocess_data: rows of scaled cells
    scaler,         \* self.scaler: the fitted per-column minimum and maximum
    len_result,     \* <<v>> once __len__() returned v, <<>> before
    item,           \* what the last __getitem__(idx) returned
    \* ---- TimeseriesEnsemble.forward ----
    fw_pc,          \* "call" | "returned"
    x,              \* the tensor handed to forward
    lstm_in,        \* what self.lstm read
    cnn_in,         \* what self.cnn read
    \* ---- predict_with_sample ----
    pr_pc,          \* "start" | "returned"
    model_inputs,   \* the tensors the two models were invoked on
    prob_15m,       \* softmax output of the 15m model
    prob_1h,        \* softmax output of the 1h model
    combined_probs, \* the fused probabilities
    signal,         \* "BUY" | "SELL" | "HOLD"
    \* ---- DualTimeframeTrainer and main ----
    pc,             \* position of the driver
    epoch,          \* loop variable of main
    loader_len,     \* len(dataloader_15m), len(dataloader_1h)
    step,           \* pairs zip has yielded in the running call
    total_loss,     \* accumulator of the running call (tenths)
    loss_15m,       \* criterion value of the last 15m batch
    loss_1h,        \* criterion value of the last 1h batch
    training,       \* module mode of each model (train() / eval())
    params,         \* per model: number of optimizer updates applied
    opt_state,      \* per optimizer: number of step() calls
    fwd_modes,      \* modes the forward passes of the running call ran in
    train_loss,     \* value train_epoch returned, <<num, den>>
    val_loss,       \* value validate returned, <<num, den>>
    log,            \* records handed to the logger
    checkpoints     \* prefix -> saved parameters

ds_vars == <<ds_pc, data, scaler, len_result, item>>
fw_vars == <<fw_pc, x, lstm_in, cnn_in>>
pr_vars == <<pr_pc, model_inputs, prob_15m, prob_1h, combined_probs, signal>>
tr_vars == <<pc, epoch, loader_len, step, total_loss, loss_15m, loss_1h,
             training, params, opt_state, fwd_modes, train_loss, val_loss,
             log, checkpoints>>
vars == <<ds_vars, fw_vars, pr_vars, tr_vars>>

\* Python's s[i]
At(s, i) == s[i + 1]

\* Python's s[a:b] on a sequence (0 <= a; the end is clipped to len(s))
Slice(s, a, b) ==
    LET e == IF b < Len(s) THEN b ELSE Len(s)
    IN  IF a >= e THEN <<>> ELSE SubSeq(s, a + 1, e)

Max(a, b) == IF a >= b THEN a ELSE b
Min(a, b) == IF a <= b THEN a ELSE b

\* Equality of two rationals <<num, den>> with positive denominators
RatEq(p, q) == p[1] * q[2] = q[1] * p[2]

(***************************************************************************)
(* MarketDataset                                                           *)
(***************************************************************************)

\* Bounds of the fetched inputs and of the indices asked for
MaxRows == 103
MaxShape == 2
MaxIndex == 3

\* self.sequence_length
sequence_length == 100

\* The fetched columns, in SELECT order.  The model keeps the four price
\* columns; the sixteen that follow are handled the same way by every step.
Columns == <<"open", "close", "high", "low">>
NumCols == Len(Columns)

\* Position (0-based) of a column in the fetched order
ColumnIndex(name) == CHOOSE c \in 0..(NumCols - 1) : At(Columns, c) = name

\* A family of fetched frames: n rows in open_time order.  shape varies the
\* price series so that the columns are not affine images of each other.
FetchedRows(n, shape) ==
    [k \in 1..n |->
        LET o == 100 + ((3 * k) % 7)
            c == 100 + ((5 * k + shape) % 11)
        IN  <<o, c, Max(o, c) + shape, Min(o, c) - 1>>]

\* Cells the query returned as NULL: none, or the close of the first or of the
\* last row (only in frames of two rows or more, so every column has a value).
MissingChoices(n) ==
    {{}} \cup (IF n >= 2 THEN {{<<1, 2>>}, {<<n, 2>>}} ELSE {})

\* DataFrame.ffill(): a missing cell takes the last valid value above it
Ffill(rows, missing) ==
    LET valid(c) == {r \in 1..Len(rows) : <<r, c>> \notin missing}
        above(r, c) == {q \in valid(c) : q < r}
        last(r, c) == CHOOSE q \in above(r, c) : \A p \in above(r, c) : p <= q
    IN  [rows |-> [r \in 1..Len(rows) |-> [c \in 1..NumCols |->
                     IF <<r, c>> \in missing /\ above(r, c) # {}
                     THEN rows[last(r, c)][c] ELSE rows[r][c]]],
         missing |-> {m \in missing :
                        {q \in valid(m[2]) : q < m[1]} = {}}]

\* DataFrame.bfill(): a missing cell takes the first valid value below it
Bfill(rows, missing) ==
    LET valid(c) == {r \in 1..Len(rows) : <<r, c>> \notin missing}
        below(r, c) == {q \in valid(c) : q > r}
        first(r, c) == CHOOSE q \in below(r, c) : \A p \in below(r, c) : q <= p
    IN  [rows |-> [r \in 1..Len(rows) |-> [c \in 1..NumCols |->
                     IF <<r, c>> \in missing /\ below(r, c) # {}
                     THEN rows[first(r, c)][c] ELSE rows[r][c]]],
         missing |-> {m \in missing :
                        {q \in valid(m[2]) : q > m[1]} = {}}]

\* min / max of a non-empty set of integers
SetMin(S) == CHOOSE m \in S : \A v \in S : m <= v
SetMax(S) == CHOOSE m \in S : \A v \in S : v <= m

\* MinMaxScaler.fit: the per-column minimum and maximum of the frame
MinMaxFit(rows) ==
    [data_min |-> [c \in 1..NumCols |-> SetMin({rows[r][c] : r \in 1..Len(rows)})],
     data_max |-> [c \in 1..NumCols |-> SetMax({rows[r][c] : r \in 1..Len(rows)})]]

\* MinMaxScaler.transform of one cell of column c (1-based): the rational
\* (v - min) / (max - min); a zero range is replaced by 1 before dividing.
ScaleCell(sc, c, v) ==
    LET range == sc.data_max[c] - sc.data_min[c]
    IN  <<v - sc.data_min[c], IF range = 0 THEN 1 ELSE range>>

\* MinMaxScaler.transform of one row
ScaleRow(sc, row) == [c \in 1..NumCols |-> ScaleCell(sc, c, row[c])]

\* MarketDataset.__init__: fetch, sequence_length, scaler, _preprocess_data.
\* fit_transform rejects a frame without rows (ValueError); nothing else in
\* the constructor looks at the number of rows.
Construct(n, shape, missing) ==
    /\ ds_pc = "new"
    /\ LET fetched == FetchedRows(n, shape)
           filled == Bfill(Ffill(fetched, missing).rows,
                           Ffill(fetched, missing).missing).rows
       IN  IF n = 0
           THEN /\ ds_pc' = "ValueError"
                /\ UNCHANGED <<data, scaler>>
           ELSE /\ ds_pc' = "ready"
                /\ scaler' = MinMaxFit(filled)
                /\ data' = [r \in 1..n |-> ScaleRow(scaler', filled[r])]
    /\ UNCHANGED <<len_result, item>>
    /\ UNCHANGED <<fw_vars, pr_vars, tr_vars>>

\* MarketDataset.__len__
DatasetLen == Len(data) - sequence_length

CallLen ==
    /\ ds_pc = "ready"
    /\ len_result' = <<DatasetLen>>
    /\ UNCHANGED <<ds_pc, data, scaler, item>>
    /\ UNCHANGED <<fw_vars, pr_vars, tr_vars>>

\* The column __getitem__ takes the target from
TargetColumn == 0

\* MarketDataset.__getitem__(idx), idx >= 0
GetItemResult(idx) ==
    IF idx + sequence_length >= Len(data)
    THEN [error |-> "IndexError", idx |-> idx]
    ELSE [error |-> "none", idx |-> idx,
          sequence |-> Slice(data, idx, idx + sequence_length),
          target |-> At(At(data, idx + sequence_length), TargetColumn)]

GetItem(idx) ==
    /\ ds_pc = "ready"
    /\ item' = GetItemResult(idx)
    /\ UNCHANGED <<ds_pc, data, scaler, len_result>>
    /\ UNCHANGED <<fw_vars, pr_vars, tr_vars>>

(***************************************************************************)
(* TimeseriesEnsemble.forward                                              *)
(***************************************************************************)

\* Bounds of the tensors handed to forward
MaxBatch == 2
MaxSeq == 2
FwFeatures == 2

\* float32 values: the three non-finite ones, the two finite extremes, and
\* two ordinary finite values
NaN == "nan"
PosInf == "inf"
NegInf == "-inf"
FloatMax == "3.4028235e+38"
FloatLowest == "-3.4028235e+38"
Zero == "0.0"
Half == "0.5"
NonFinite == {NaN, PosInf, NegInf}
Floats == NonFinite \cup {FloatMax, FloatLowest, Zero, Half}

\* Mutant of NanToNumElem: only nan is replaced
NanToNumElem_OnlyNan(v, nan) == IF v = NaN THEN nan ELSE v

\* torch.nan_to_num(v, nan): nan becomes the given value; posinf and neginf
\* are not given, so +inf becomes the greatest finite value of the dtype and
\* -inf the lowest.
NanToNumElem(v, nan) ==
    IF v = NaN THEN nan
    ELSE IF v = PosInf THEN FloatMax
    ELSE IF v = NegInf THEN FloatLowest
    ELSE v

\* A tensor is [size |-> <<B, F>> or <<B, T, F>>, v |-> nested sequences].
\* x.unsqueeze(1) of a 2-D tensor
Unsqueeze1(t) ==
    [size |-> <<t.size[1], 1, t.size[2]>>,
     v |-> [b \in 1..t.size[1] |-> <<t.v[b]>>]]

\* torch.nan_to_num(x, 0.0) on a 3-D tensor
NanToNum(t) ==
    [size |-> t.size,
     v |-> [b \in 1..t.size[1] |-> [s \in 1..t.size[2] |-> [f \in 1..t.size[3] |->
              NanToNumElem(t.v[b][s][f], Zero)]]]]

\* x[:, -1, :]
LastStep(t) ==
    [size |-> <<t.size[1], t.size[3]>>,
     v |-> [b \in 1..t.size[1] |-> t.v[b][t.size[2]]]]

\* The tensor both branches read: forward up to the first branch
ForwardInput(t) == NanToNum(IF Len(t.size) = 2 THEN Unsqueeze1(t) ELSE t)

\* TimeseriesEnsemble.forward: the values the two branches read.  The logits
\* depend on the trained parameters and are not part of this state.
Forward ==
    /\ fw_pc = "call"
    /\ fw_pc' = "returned"
    /\ lstm_in' = ForwardInput(x)
    /\ cnn_in' = LastStep(ForwardInput(x))
    /\ UNCHANGED x
    /\ UNCHANGED <<ds_vars, pr_vars, tr_vars>>

\* Input tensors: Half everywhere except at two positions
Tensor3(B, T, F, p1, v1, p2, v2) ==
    [size |-> <<B, T, F>>,
     v |-> [b \in 1..B |-> [s \in 1..T |-> [f \in 1..F |->
              IF <<b, s, f>> = p2 THEN v2
              ELSE IF <<b, s, f>> = p1 THEN v1 ELSE Half]]]]

Tensor2(B, F, p1, v1, p2, v2) ==
    [size |-> <<B, F>>,
     v |-> [b \in 1..B |-> [f \in 1..F |->
              IF <<b, f>> = p2 THEN v2
              ELSE IF <<b, f>> = p1 THEN v1 ELSE Half]]]

\* Windows (batch, time, feature) and single rows (batch, feature)
InputWindows(B, T) ==
    {Tensor3(B, T, FwFeatures, p1, v1, p2, v2) :
        p1 \in (1..B) \X (1..T) \X (1..FwFeatures), v1 \in Floats,
        p2 \in (1..B) \X (1..T) \X (1..FwFeatures), v2 \in Floats}

InputRows(B) ==
    {Tensor2(B, FwFeatures, p1, v1, p2, v2) :
        p1 \in (1..B) \X (1..FwFeatures), v1 \in Floats,
        p2 \in (1..B) \X (1..FwFeatures), v2 \in Floats}

(***************************************************************************)
(* predict_with_sample                                                     *)
(***************************************************************************)

\* Probabilities are multiples of 1 / ProbScale
ProbScale == 5
\* Rows of the frame whose statistics the training dataset's scaler holds
MaxFitRows == 3

\* The fusion weights and the decision threshold, in tenths
W_15M == 4
W_1H == 6
Threshold == 6

\* last_15m_candle and last_1h_candle in hundredths, in the order the arrays
\* are built (open, close, high, low, ...), kept to the modelled columns
last_15m_candle ==
    [open |-> 2045050, high |-> 889000, low |-> 800025, close |-> 875075]
last_1h_candle ==
    [open |-> 2045050, high |-> 2045050, low |-> 2045050, close |-> 2045050]

\* np.array([candle['open'], candle['close'], candle['high'], candle['low'], ...])
CandleArray(candle) == [c \in 1..NumCols |-> candle[Columns[c]]]

\* torch.softmax(logits, dim=1)[0] for some logits: a distribution over
\* (long, short, hold)
Distributions ==
    {<<a, b, ProbScale - a - b>> : a \in 0..ProbScale, b \in 0..ProbScale}
        \cap ((0..ProbScale) \X (0..ProbScale) \X (0..ProbScale))

\* combined_probs, each in units of 1 / (10 * ProbScale)
Combine(p15, p1h) ==
    [long |-> W_15M * p15[1] + W_1H * p1h[1],
     short |-> W_15M * p15[2] + W_1H * p1h[2],
     hold |-> W_15M * p15[3] + W_1H * p1h[3]]

\* Mutant of AboveThreshold: the comparison made non-strict
AboveThreshold_NonStrict(v) == v >= Threshold * ProbScale

\* v > 0.6 for v in units of 1 / (10 * ProbScale)
AboveThreshold(v) == v > Threshold * ProbScale

\* signal
Decide(cp) ==
    IF AboveThreshold(cp.long) THEN "BUY"
    ELSE IF AboveThreshold(cp.short) THEN "SELL"
    ELSE "HOLD"

\* The tensors predict_with_sample hands to the two models
PredictInputs ==
    [m15 |-> [size |-> <<1, NumCols>>, v |-> <<CandleArray(last_15m_candle)>>],
     m1h |-> [size |-> <<1, NumCols>>, v |-> <<CandleArray(last_1h_candle)>>]]

\* predict_with_sample; the loaded parameters decide the two distributions
PredictWithSample(p15, p1h) ==
    /\ pr_pc = "start"
    /\ pr_pc' = "returned"
    /\ model_inputs' = PredictInputs
    /\ prob_15m' = p15
    /\ prob_1h' = p1h
    /\ combined_probs' = Combine(p15, p1h)
    /\ signal' = Decide(Combine(p15, p1h))
    /\ UNCHANGED <<ds_vars, fw_vars, tr_vars>>

(***************************************************************************)
(* DualTimeframeTrainer and the epoch loop of main                         *)
(***************************************************************************)

\* Bound of the number of batches of a loader
MaxBatches == 2

\* NUM_EPOCHS and the modulus of the save test in main
NUM_EPOCHS == 10
SavePeriod == 10

\* The loss weights of train_epoch and validate, in tenths
LossW_15M == 4
LossW_1H == 6

\* Values of criterion(pred, target) on a batch
Losses == {0, 1}

Models == {"15m", "1h"}

\* zip(dataloader_15m, dataloader_1h) yields this many pairs
ZipLen == Min(loader_len["15m"], loader_len["1h"])

\* loss = 0.4 * loss_15m + 0.6 * loss_1h, in tenths
CombinedLoss(l15, l1h) == LossW_15M * l15 + LossW_1H * l1h

\* total_loss / len(dataloader_15m)
EpochMean == <<total_loss, loader_len["15m"]>>

\* train_epoch, up to the loop: both models to train mode, total_loss = 0
TrainEpochBegin ==
    /\ pc = "loop"
    /\ epoch < NUM_EPOCHS
    /\ pc' = "train_epoch"
    /\ training' = [m \in Models |-> TRUE]
    /\ total_loss' = 0
    /\ step' = 0
    /\ fwd_modes' = {}
    /\ UNCHANGED <<epoch, loader_len, loss_15m, loss_1h, params, opt_state,
                   train_loss, val_loss, log, checkpoints>>
    /\ UNCHANGED <<ds_vars, fw_vars, pr_vars>>

\* One iteration of train_epoch's loop: zero_grad, forward and criterion for
\* each model, backward of the combined loss, clipping, both optimizer steps,
\* accumulation.
TrainEpochStep(l15, l1h) ==
    /\ pc = "train_epoch"
    /\ step < ZipLen
    /\ fwd_modes' = fwd_modes \cup {training[m] : m \in Models}
    /\ loss_15m' = l15
    /\ loss_1h' = l1h
    /\ params' = [m \in Models |-> params[m] + 1]
    /\ opt_state' = [m \in Models |-> opt_state[m] + 1]
    /\ total_loss' = total_loss + CombinedLoss(l15, l1h)
    /\ step' = step + 1
    /\ UNCHANGED <<pc, epoch, loader_len, training, train_loss, val_loss,
                   log, checkpoints>>
    /\ UNCHANGED <<ds_vars, fw_vars, pr_vars>>

\* The return of train_epoch; the division raises when dataloader_15m is empty
TrainEpochReturn ==
    /\ pc = "train_epoch"
    /\ step = ZipLen
    /\ IF loader_len["15m"] = 0
       THEN pc' = "ZeroDivisionError" /\ UNCHANGED train_loss
       ELSE pc' = "after_train" /\ train_loss' = EpochMean
    /\ UNCHANGED <<epoch, loader_len, step, total_loss, loss_15m, loss_1h,
                   training, params, opt_state, fwd_modes, val_loss, log,
                   checkpoints>>
    /\ UNCHANGED <<ds_vars, fw_vars, pr_vars>>

\* Mutant of ValidateBegin: the two eval() calls left out
ValidateBegin_NoEval ==
    /\ pc = "after_train"
    /\ pc' = "validate"
    /\ total_loss' = 0
    /\ step' = 0
    /\ fwd_modes' = {}
    /\ UNCHANGED <<epoch, loader_len, loss_15m, loss_1h, training, params,
                   opt_state, train_loss, val_loss, log, checkpoints>>
    /\ UNCHANGED <<ds_vars, fw_vars, pr_vars>>

\* validate, up to the loop: both models to eval mode, total_loss = 0
ValidateBegin ==
    /\ pc = "after_train"
    /\ pc' = "validate"
    /\ training' = [m \in Models |-> FALSE]
    /\ total_loss' = 0
    /\ step' = 0
    /\ fwd_modes' = {}
    /\ UNCHANGED <<epoch, loader_len, loss_15m, loss_1h, params, opt_state,
                   train_loss, val_loss, log, checkpoints>>
    /\ UNCHANGED <<ds_vars, fw_vars, pr_vars>>

\* One iteration of validate's loop, under no_grad: forward and criterion for
\* each model, accumulation.
ValidateStep(l15, l1h) ==
    /\ pc = "validate"
    /\ step < ZipLen
    /\ fwd_modes' = fwd_modes \cup {training[m] : m \in Models}
    /\ loss_15m' = l15
    /\ loss_1h' = l1h
    /\ total_loss' = total_loss + CombinedLoss(l15, l1h)
    /\ step' = step + 1
    /\ UNCHANGED <<pc, epoch, loader_len, training, params, opt_state,
                   train_loss, val_loss, log, checkpoints>>
    /\ UNCHANGED <<ds_vars, fw_vars, pr_vars>>

\* The return of validate
ValidateReturn ==
    /\ pc = "validate"
    /\ step = ZipLen
    /\ IF loader_len["15m"] = 0
       THEN pc' = "ZeroDivisionError" /\ UNCHANGED val_loss
       ELSE pc' = "after_validate" /\ val_loss' = EpochMean
    /\ UNCHANGED <<epoch, loader_len, step, total_loss, loss_15m, loss_1h,
                   training, params, opt_state, fwd_modes, train_loss, log,
                   checkpoints>>
    /\ UNCHANGED <<ds_vars, fw_vars, pr_vars>>

\* Mutant of SaveDue: a save after every epoch
SaveDue_Always(e) == TRUE

\* The save test of main's loop
SaveDue(e) == e % SavePeriod = 0

\* save_models(path, prefix): one file per model, named prefix + "_" + tag
SaveModels(files, prefix) ==
    [f \in (DOMAIN files) \cup {<<prefix, m>> : m \in Models} |->
        IF f[1] = prefix THEN params[f[2]] ELSE files[f]]

\* f"epoch_{epoch}"
Prefix(e) == <<"epoch", e>>

\* The rest of one pass of main's loop: the logger line, then the save test.
\* The logger record keeps the level and the epoch of the formatted line.
EpochEnd ==
    /\ pc = "after_validate"
    /\ log' = Append(log, [level |-> "INFO", epoch |-> epoch])
    /\ checkpoints' = IF SaveDue(epoch)
                      THEN SaveModels(checkpoints, Prefix(epoch))
                      ELSE checkpoints
    /\ epoch' = epoch + 1
    /\ pc' = "loop"
    /\ UNCHANGED <<loader_len, step, total_loss, loss_15m, loss_1h, training,
                   params, opt_state, fwd_modes, train_loss, val_loss>>
    /\ UNCHANGED <<ds_vars, fw_vars, pr_vars>>

\* range(NUM_EPOCHS) is exhausted: main returns
MainReturn ==
    /\ pc = "loop"
    /\ epoch = NUM_EPOCHS
    /\ pc' = "done"
    /\ UNCHANGED <<epoch, loader_len, step, total_loss, loss_15m, loss_1h,
                   training, params, opt_state, fwd_modes, train_loss,
                   val_loss, log, checkpoints>>
    /\ UNCHANGED <<ds_vars, fw_vars, pr_vars>>

(***************************************************************************)
(* Specifications                                                          *)
(***************************************************************************)

NoDataset ==
    /\ ds_pc = "new"
    /\ data = <<>>
    /\ scaler = "unfitted"
    /\ len_result = <<>>
    /\ item = [error |-> "no call"]

NoForward ==
    /\ fw_pc = "idle"
    /\ x = "none"
    /\ lstm_in = "none"
    /\ cnn_in = "none"

NoPredict ==
    /\ pr_pc = "idle"
    /\ model_inputs = "none"
    /\ prob_15m = "none"
    /\ prob_1h = "none"
    /\ combined_probs = "none"
    /\ signal = "none"

\* The trainer after DualTimeframeTrainer.__init__, before main's loop
NewTrainer ==
    /\ epoch = 0
    /\ step = 0
    /\ total_loss = 0
    /\ loss_15m = "none"
    /\ loss_1h = "none"
    /\ training = [m \in Models |-> TRUE]
    /\ params = [m \in Models |-> 0]
    /\ opt_state = [m \in Models |-> 0]
    /\ fwd_modes = {}
    /\ train_loss = "none"
    /\ val_loss = "none"
    /\ log = <<>>
    /\ checkpoints = <<>>

NoTrainer ==
    /\ pc = "idle"
    /\ loader_len = [m \in Models |-> 0]
    /\ NewTrainer

\* ---- MarketDataset: construction, then __len__ and __getitem__ calls ----
InitDataset == NoDataset /\ NoForward /\ NoPredict /\ NoTrainer

NextDataset ==
    \/ \E n \in 0..MaxRows, shape \in 1..MaxShape :
          \E missing \in MissingChoices(n) : Construct(n, shape, missing)
    \/ CallLen
    \/ \E idx \in 0..MaxIndex : GetItem(idx)

SpecDataset == InitDataset /\ [][NextDataset]_vars

\* ---- TimeseriesEnsemble.forward on one input tensor ----
InitForward ==
    /\ NoDataset /\ NoPredict /\ NoTrainer
    /\ fw_pc = "call"
    /\ \E B \in 1..MaxBatch :
          \/ \E T \in 1..MaxSeq : x \in InputWindows(B, T)
          \/ x \in InputRows(B)
    /\ lstm_in = "none"
    /\ cnn_in = "none"

NextForward == Forward

SpecForward == InitForward /\ [][NextForward]_vars

\* ---- predict_with_sample, after a training run fitted a scaler ----
InitPredict ==
    /\ NoForward /\ NoTrainer
    /\ ds_pc = "ready"
    /\ \E n \in 1..MaxFitRows, shape \in 1..MaxShape :
          /\ scaler = MinMaxFit(FetchedRows(n, shape))
          /\ data = [r \in 1..n |->
                       ScaleRow(MinMaxFit(FetchedRows(n, shape)),
                                FetchedRows(n, shape)[r])]
    /\ len_result = <<>>
    /\ item = [error |-> "no call"]
    /\ pr_pc = "start"
    /\ model_inputs = "none"
    /\ prob_15m = "none"
    /\ prob_1h = "none"
    /\ combined_probs = "none"
    /\ signal = "none"

NextPredict ==
    \E p15 \in Distributions, p1h \in Distributions : PredictWithSample(p15, p1h)

SpecPredict == InitPredict /\ [][NextPredict]_vars

\* ---- main's epoch loop over two loaders ----
InitTrain ==
    /\ NoDataset /\ NoForward /\ NoPredict
    /\ pc = "loop"
    /\ loader_len \in [Models -> 0..MaxBatches]
    /\ NewTrainer

NextTrain ==
    \/ TrainEpochBegin
    \/ \E l15 \in Losses, l1h \in Losses : TrainEpochStep(l15, l1h)
    \/ TrainEpochReturn
    \/ ValidateBegin
    \/ \E l15 \in Losses, l1h \in Losses : ValidateStep(l15, l1h)
    \/ ValidateReturn
    \/ EpochEnd
    \/ MainReturn

SpecTrain == InitTrain /\ [][NextTrain]_vars

(***************************************************************************)
(* Claims                                                                  *)
(***************************************************************************)

\* C1: for every fetched row count N, __len__ returns max(N - L, 0), never a
\* negative number, also when N < L.
C1_LenIsMaxZero ==
    len_result # <<>> =>
        len_result[1] = Max(Len(data) - sequence_length, 0)

\* C2: for every valid index i, example i is the window of the L rows from
\* row i on, with the scaled close of row i + L as its target.
C2_TargetIsNextClose ==
    item.error = "none" =>
        /\ item.sequence = [k \in 1..sequence_length |-> At(data, item.idx + k - 1)]
        /\ RatEq(item.target,
                 At(At(data, item.idx + sequence_length), ColumnIndex("close")))

\* C3: a construction whose fetch returns fewer than L + 1 rows ends in an
\* error; it never completes with zero or fewer examples.
C3_ShortFetchRejected ==
    ds_pc = "ready" => Len(data) >= sequence_length + 1

\* C4: the fused probabilities are 0.4 * p15m + 0.6 * p1h, and the signal is
\* BUY exactly when fused long > 0.6, else SELL exactly when fused short > 0.6,
\* else HOLD, with strict comparisons.
C4_FusionDecision ==
    pr_pc = "returned" =>
        LET long == 4 * prob_15m[1] + 6 * prob_1h[1]
            short == 4 * prob_15m[2] + 6 * prob_1h[2]
            hold == 4 * prob_15m[3] + 6 * prob_1h[3]
        IN  /\ combined_probs = [long |-> long, short |-> short, hold |-> hold]
            /\ (signal = "BUY") <=> (long > 6 * ProbScale)
            /\ (signal = "SELL") <=> (~(long > 6 * ProbScale) /\ short > 6 * ProbScale)
            /\ (signal = "HOLD") <=> (~(long > 6 * ProbScale) /\ ~(short > 6 * ProbScale))

\* C4 witness: a fused long probability of exactly 0.6 gave HOLD
C4_Witness ==
    /\ pr_pc = "returned"
    /\ combined_probs.long = 6 * ProbScale
    /\ signal = "HOLD"

\* The input of forward in its three-dimensional form
XWindow == IF Len(x.size) = 2 THEN Unsqueeze1(x) ELSE x

\* The positions of the input of forward
XPositions ==
    (1..XWindow.size[1]) \X (1..XWindow.size[2]) \X (1..XWindow.size[3])

C6_InferenceInputScaled ==
    pr_pc = "returned" =>
        \A c \in 1..NumCols :
            /\ RatEq(<<model_inputs.m15.v[1][c], 1>>,
                     ScaleCell(scaler, c, CandleArray(last_15m_candle)[c]))
            /\ RatEq(<<model_inputs.m1h.v[1][c], 1>>,
                     ScaleCell(scaler, c, CandleArray(last_1h_candle)[c]))

\* The files save_models writes for a prefix
CheckpointFiles(e) == {<<Prefix(e), m>> : m \in Models}

\* C7, as claimed: a checkpoint of both models is written after every epoch,
\* and after the run the most recent one holds the parameters of the last
\* epoch.
C7_CheckpointEveryEpoch ==
    /\ \A e \in 0..(epoch - 1) : CheckpointFiles(e) \subseteq DOMAIN checkpoints
    /\ pc = "done" =>
          \A m \in Models : checkpoints[<<Prefix(NUM_EPOCHS - 1), m>>] = params[m]

\* C7, amended: a checkpoint of both models is written after epoch e exactly
\* when e % 10 = 0 (for the ten epochs of main: after epoch 0 only); it holds
\* the parameters as they were when epoch e ended, so after the run the most
\* recent checkpoint holds the parameters of epoch 0.
C7_CheckpointOnSavePeriod ==
    /\ \A e \in 0..(epoch - 1) : \A f \in CheckpointFiles(e) :
          /\ (f \in DOMAIN checkpoints) <=> (e % 10 = 0)
          /\ f \in DOMAIN checkpoints => checkpoints[f] = (e + 1) * ZipLen
    /\ \A f \in DOMAIN checkpoints : f[1][2] < epoch
    /\ pc = "done" => DOMAIN checkpoints = CheckpointFiles(0)

\* C7 witness: the run ended and the only checkpoint is older than the
\* parameters the models ended with
C7_Witness ==
    /\ pc = "done"
    /\ \A m \in Models :
          /\ <<Prefix(0), m>> \in DOMAIN checkpoints
          /\ checkpoints[<<Prefix(0), m>>] < params[m]

\* C8: train_epoch takes min(len(loaderA), len(loaderB)) steps and returns
\* the sum of the combined losses divided by the number of steps taken.
C8_MeanOverStepsTaken ==
    pc = "after_train" =>
        /\ step = Min(loader_len["15m"], loader_len["1h"])
        /\ step > 0 => RatEq(train_loss, <<total_loss, step>>)

\* C9: when train_epoch or validate ran on loaders of different lengths, a
\* warning was emitted during the call.
C9_TruncationObservable ==
    (pc \in {"after_train", "after_validate"}
        /\ loader_len["15m"] # loader_len["1h"]) =>
        \E k \in DOMAIN log : log[k].level = "WARNING"

\* What a step taken inside validate may do
ValidateEffect ==
    pc \in {"after_train", "validate"} =>
        /\ params' = params
        /\ opt_state' = opt_state
        /\ fwd_modes' \subseteq {FALSE}
        /\ step' = step + 1 =>
              total_loss' = total_loss + 4 * loss_15m' + 6 * loss_1h'
        /\ pc' = "after_validate" =>
              val_loss' = <<total_loss, loader_len["15m"]>>

\* C10: validate changes neither the parameters of the models nor the state
\* of the optimizers, each of its forward passes runs with both models in
\* eval mode whatever mode train_epoch left, and each batch adds
\* 0.4 * loss_15m + 0.6 * loss_1h to its total.
C10_ValidateFrame ==
    [][ValidateEffect]_vars

\* C10 witness: validate returned after forward passes, following a
\* train_epoch that updated the parameters in train mode
C10_Witness ==
    /\ pc = "after_validate"
    /\ step > 0
    /\ total_loss > 0
    /\ fwd_modes = {FALSE}
    /\ \A m \in Models : params[m] > 0

=============================================================================
